---- MODULE Spec2Model ----
(***************************************************************************)
(* Model of src/lib.rs: Arc<T> / Weak<T> over one heap cell Inner<T>.      *)
(*                                                                         *)
(* One Inner is allocated by Arc::new.  Handles (Arc) are values that may  *)
(* be moved between threads, so the idle handles form one pool; a thread   *)
(* takes a handle out of the pool when it drops it.  Weak is Copy, so the  *)
(* snapshots that were ever derived form one set that every thread can use.*)
(* Every atomic access of Inner::provenance / Inner::ref_count is one      *)
(* step.  After Box::from_raw has run every access through a dangling      *)
(* pointer is undefined behaviour: the block belongs to the allocator, so  *)
(* a load may return any word and a store is lost.                         *)
(***************************************************************************)
EXTENDS Integers, FiniteSets, Sequences, TLC

NumThreads == 2
MaxArcs == 2
UsizeBits == 2

Threads == 1..NumThreads
WordMod == 2 ^ UsizeBits
Words == 0..(WordMod - 1)

Kinds == {"new", "clone", "upgO", "upgX"}

VARIABLES
    alloc,       \* "live" | "freed": has Box::from_raw released the block
    refreed,     \* history: Box::from_raw ran on the block a second time
    provenance,  \* Inner::provenance while allocated (0 afterwards: undefined)
    ref_count,   \* Inner::ref_count while allocated (0 afterwards: undefined)
    arcs,        \* Arc handles not being operated on, per way of creation
    weaks,       \* Weak::provenance of the Weak handles derived so far
    pc,          \* per thread: position inside Weak::upgrade / Arc::drop
    exp,         \* per thread: the local `exp`
    held,        \* per thread: the Arc being dropped (until its decrement)
                 \*   or being produced by upgrade (from its increment)
    ident,       \* history: the provenance Arc::new assigned
    uaf,         \* history: some access touched the block after the free
    liveWeak,    \* history: a Weak was derived while the block was allocated
    revived,     \* history: an upgrade raised ref_count from 0 on the live block
    late,        \* history, per upgrade: begun with no Arc left and no operation running
    covered      \* history, per upgrade: an Arc existed ever since it began

vars == <<alloc, refreed, provenance, ref_count, arcs, weaks, pc, exp, held,
          ident, uaf, liveWeak, revived, late, covered>>

mem == <<provenance, ref_count>>
hist == <<ident, liveWeak, revived>>

\* provenance ^ (provenance & 1)
ClearLow(v) == v - (v % 2)
\* exp | 1
SetLow(v) == v + 1 - (v % 2)
\* fetch_add(1) / fetch_sub(1) on a usize wrap around
WrapAdd(v) == (v + 1) % WordMod
WrapSub(v) == (v + WordMod - 1) % WordMod

PoolSize(a) == a["new"] + a["clone"] + a["upgO"] + a["upgX"]
Dropping(p, h) == {t \in Threads : p[t] = "dr_dec" /\ h[t] # "none"}
Upgrading(p) == {t \in Threads : p[t] \in {"up_lock", "up_inc", "up_unlock", "up_ret"}}

\* an Arc value exists: idle in the pool, or inside drop before its decrement
OwnerExists(a, p, h) == PoolSize(a) > 0 \/ Dropping(p, h) # {}
\* the Arc made by Arc::new has not yet given up its count
OrigAlive(a, p, h) == a["new"] > 0 \/ \E t \in Threads : p[t] = "dr_dec" /\ h[t] = "new"

\* room for one more handle within the model's bound
Room == PoolSize(arcs) + Cardinality(Dropping(pc, held)) + Cardinality(Upgrading(pc)) < MaxArcs

Touch == uaf' = (uaf \/ alloc = "freed")

\* unsafe { &(*self.ptr) }: the words a load of each field may return, and
\* what a store leaves in the field.  Through a dangling pointer every
\* compare and every branch on a loaded word can go each way.
SeenProvenance == IF alloc = "live" THEN {provenance} ELSE Words
SeenCount == IF alloc = "live" THEN {ref_count} ELSE Words
Stored(old, new) == IF alloc = "live" THEN new ELSE old
\* A word loaded from the block and kept (Weak::provenance, the local exp) is
\* only ever compared, by Inner::lock, with a later load of the same field.
\* The block is never allocated again, so once it is freed that later load
\* returns any word whatever was kept: the kept word decides nothing and the
\* model stores the scrubbed field for it.
KeptProvenance == provenance

\* covered[u] stays TRUE only while an Arc exists in every state of u's upgrade
Cover(a, p, h) == [u \in Threads |-> covered[u] /\ p[u] \in {"up_lock", "up_none"} /\ OwnerExists(a, p, h)]

Init ==
    /\ alloc = "live"
    /\ refreed = FALSE
    /\ \E r \in Words : /\ provenance = ClearLow(r)
                        /\ ident = ClearLow(r)
    /\ ref_count = 1
    /\ arcs = [k \in Kinds |-> IF k = "new" THEN 1 ELSE 0]
    /\ weaks = {}
    /\ pc = [t \in Threads |-> "idle"]
    /\ exp = [t \in Threads |-> 0]
    /\ held = [t \in Threads |-> "none"]
    /\ uaf = FALSE
    /\ liveWeak = FALSE
    /\ revived = FALSE
    /\ late = [t \in Threads |-> FALSE]
    /\ covered = [t \in Threads |-> FALSE]

\* impl Clone for Arc: one fetch_add through a borrowed handle
Clone(t) ==
    /\ pc[t] = "idle"
    /\ PoolSize(arcs) > 0
    /\ Room
    /\ ref_count' \in {Stored(ref_count, WrapAdd(c)) : c \in SeenCount}
    /\ arcs' = [arcs EXCEPT !["clone"] = @ + 1]
    /\ Touch
    /\ covered' = Cover(arcs', pc, held)
    /\ UNCHANGED <<alloc, refreed, provenance, weaks, pc, exp, held, hist, late>>

\* Arc::downgrade taking a count of its own, as an owning handle would
DowngradeCounted(t) ==
    /\ pc[t] = "idle"
    /\ PoolSize(arcs) > 0
    /\ weaks' = weaks \cup {ClearLow(KeptProvenance)}
    /\ ref_count' \in {Stored(ref_count, WrapAdd(c)) : c \in SeenCount}
    /\ liveWeak' = (liveWeak \/ alloc = "live")
    /\ Touch
    /\ UNCHANGED <<alloc, refreed, provenance, arcs, pc, exp, held, ident, revived, late, covered>>

\* Inner::weak without clearing the low bit of the word it loaded
DowngradeRaw(t) ==
    /\ pc[t] = "idle"
    /\ PoolSize(arcs) > 0
    /\ weaks' = weaks \cup {KeptProvenance}
    /\ liveWeak' = (liveWeak \/ alloc = "live")
    /\ Touch
    /\ UNCHANGED <<alloc, refreed, mem, arcs, pc, exp, held, ident, revived, late, covered>>

\* Arc::downgrade -> Inner::weak: one load, low bit cleared
Downgrade(t) ==
    /\ pc[t] = "idle"
    /\ PoolSize(arcs) > 0
    /\ weaks' = weaks \cup {ClearLow(KeptProvenance)}
    /\ liveWeak' = (liveWeak \/ alloc = "live")
    /\ Touch
    /\ UNCHANGED <<alloc, refreed, mem, arcs, pc, exp, held, ident, revived, late, covered>>

\* compare_exchange(exp, exp | 1) finding the word v, as Inner::lock matches it:
\* Ok(_), Err(v) if v == exp | 1, Err(_)
CompareExchange(v, e) ==
    IF v = e THEN "Ok" ELSE IF v = SetLow(e) THEN "ErrLocked" ELSE "Err"

\* Inner::lock giving up when it finds the lock held instead of retrying
LockNoSpin(t, ok, fail) ==
    /\ Touch
    /\ \E r \in {CompareExchange(v, exp[t]) : v \in SeenProvenance} :
         IF r = "Ok"
           THEN /\ provenance' = Stored(provenance, SetLow(exp[t]))
                /\ pc' = [pc EXCEPT ![t] = ok]
           ELSE /\ pc' = [pc EXCEPT ![t] = fail]
                /\ UNCHANGED provenance

\* Inner::lock: one compare_exchange(exp, exp | 1) per step
Lock(t, ok, fail) ==
    /\ Touch
    /\ \E r \in {CompareExchange(v, exp[t]) : v \in SeenProvenance} :
         IF r = "Ok"
           THEN /\ provenance' = Stored(provenance, SetLow(exp[t]))
                /\ pc' = [pc EXCEPT ![t] = ok]
           ELSE IF r = "ErrLocked"
           THEN UNCHANGED <<provenance, pc>>
           ELSE /\ pc' = [pc EXCEPT ![t] = fail]
                /\ UNCHANGED provenance

\* Weak::upgrade, line 73: let exp = self.provenance
UpgradeBegin(t) ==
    /\ pc[t] = "idle"
    /\ Room
    /\ \E w \in weaks : exp' = [exp EXCEPT ![t] = w]
    /\ pc' = [pc EXCEPT ![t] = "up_lock"]
    /\ late' = [late EXCEPT ![t] = PoolSize(arcs) = 0 /\ \A u \in Threads : pc[u] = "idle"]
    /\ covered' = [Cover(arcs, pc', held) EXCEPT ![t] = OwnerExists(arcs, pc, held)]
    /\ UNCHANGED <<alloc, refreed, mem, arcs, weaks, held, hist, uaf>>

\* Weak::upgrade, line 77: inner.lock(exp)
UpgradeLock(t) ==
    /\ pc[t] = "up_lock"
    /\ Lock(t, "up_inc", "up_none")
    /\ covered' = Cover(arcs, pc', held)
    /\ UNCHANGED <<alloc, refreed, ref_count, arcs, weaks, exp, held, hist, late>>

\* Weak::upgrade, line 78: return None
UpgradeNone(t) ==
    /\ pc[t] = "up_none"
    /\ pc' = [pc EXCEPT ![t] = "idle"]
    /\ exp' = [exp EXCEPT ![t] = 0]
    /\ late' = [late EXCEPT ![t] = FALSE]
    /\ covered' = Cover(arcs, pc', held)
    /\ UNCHANGED <<alloc, refreed, mem, arcs, weaks, held, hist, uaf>>

\* Weak::upgrade without its fetch_add
UpgradeIncLost(t) ==
    /\ pc[t] = "up_inc"
    /\ held' = [held EXCEPT ![t] = IF OrigAlive(arcs, pc, held) THEN "upgO" ELSE "upgX"]
    /\ pc' = [pc EXCEPT ![t] = "up_unlock"]
    /\ Touch
    /\ covered' = Cover(arcs, pc', held')
    /\ UNCHANGED <<alloc, refreed, mem, arcs, weaks, exp, hist, late>>

\* Weak::upgrade, line 82: ref_count.fetch_add(1)
UpgradeInc(t) ==
    /\ pc[t] = "up_inc"
    /\ ref_count' \in {Stored(ref_count, WrapAdd(c)) : c \in SeenCount}
    /\ held' = [held EXCEPT ![t] = IF OrigAlive(arcs, pc, held) THEN "upgO" ELSE "upgX"]
    /\ pc' = [pc EXCEPT ![t] = "up_unlock"]
    /\ Touch
    /\ revived' = (revived \/ (alloc = "live" /\ ref_count = 0))
    /\ covered' = Cover(arcs, pc', held')
    /\ UNCHANGED <<alloc, refreed, provenance, arcs, weaks, exp, ident, liveWeak, late>>

\* Weak::upgrade, line 85: provenance.store(exp)
UpgradeUnlock(t) ==
    /\ pc[t] = "up_unlock"
    /\ provenance' = Stored(provenance, exp[t])
    /\ pc' = [pc EXCEPT ![t] = "up_ret"]
    /\ Touch
    /\ covered' = Cover(arcs, pc', held)
    /\ UNCHANGED <<alloc, refreed, ref_count, arcs, weaks, exp, held, hist, late>>

\* Weak::upgrade, line 87: Some(Arc { ptr })
UpgradeSome(t) ==
    /\ pc[t] = "up_ret"
    /\ arcs' = [arcs EXCEPT ![held[t]] = @ + 1]
    /\ held' = [held EXCEPT ![t] = "none"]
    /\ pc' = [pc EXCEPT ![t] = "idle"]
    /\ exp' = [exp EXCEPT ![t] = 0]
    /\ late' = [late EXCEPT ![t] = FALSE]
    /\ covered' = Cover(arcs', pc', held')
    /\ UNCHANGED <<alloc, refreed, mem, weaks, hist, uaf>>

\* Arc::drop, lines 98-99: exp = provenance.load() with the low bit cleared
DropLoad(t) ==
    /\ pc[t] = "idle"
    /\ \E k \in Kinds : /\ arcs[k] > 0
                        /\ arcs' = [arcs EXCEPT ![k] = @ - 1]
                        /\ held' = [held EXCEPT ![t] = k]
    /\ exp' = [exp EXCEPT ![t] = ClearLow(KeptProvenance)]
    /\ pc' = [pc EXCEPT ![t] = "dr_dec"]
    /\ Touch
    /\ covered' = Cover(arcs', pc', held')
    /\ UNCHANGED <<alloc, refreed, mem, weaks, hist, late>>

\* Arc::drop, lines 101-103: if ref_count.fetch_sub(1) > 1 { return }
DropDec(t) ==
    /\ pc[t] = "dr_dec"
    /\ held' = [held EXCEPT ![t] = "none"]
    /\ \E r \in {<<Stored(ref_count, WrapSub(c)), c > 1>> : c \in SeenCount} :
         /\ ref_count' = r[1]
         /\ IF r[2]
              THEN /\ pc' = [pc EXCEPT ![t] = "idle"]
                   /\ exp' = [exp EXCEPT ![t] = 0]
              ELSE /\ pc' = [pc EXCEPT ![t] = "dr_lock"]
                   /\ UNCHANGED exp
    /\ Touch
    /\ covered' = Cover(arcs, pc', held')
    /\ UNCHANGED <<alloc, refreed, provenance, arcs, weaks, hist, late>>

\* Arc::drop, lines 108-110: if !inner.lock(exp) { return }
DropLock(t) ==
    /\ pc[t] = "dr_lock"
    /\ Lock(t, "dr_check", "idle")
    /\ exp' = [exp EXCEPT ![t] = IF pc'[t] = "idle" THEN 0 ELSE @]
    /\ UNCHANGED <<alloc, refreed, ref_count, arcs, weaks, held, hist, late, covered>>

\* Arc::drop, line 114: if ref_count.load() != 0
DropCheck(t) ==
    /\ pc[t] = "dr_check"
    /\ \E r \in {c # 0 : c \in SeenCount} :
         pc' = [pc EXCEPT ![t] = IF r THEN "dr_unlock" ELSE "dr_scrub"]
    /\ Touch
    /\ UNCHANGED <<alloc, refreed, mem, arcs, weaks, exp, held, hist, late, covered>>

\* Arc::drop, lines 115-116: provenance.store(exp); return
DropUnlock(t) ==
    /\ pc[t] = "dr_unlock"
    /\ provenance' = Stored(provenance, exp[t])
    /\ pc' = [pc EXCEPT ![t] = "idle"]
    /\ exp' = [exp EXCEPT ![t] = 0]
    /\ Touch
    /\ UNCHANGED <<alloc, refreed, ref_count, arcs, weaks, held, hist, late, covered>>

\* Arc::drop, line 120: provenance.store(0)
DropScrub(t) ==
    /\ pc[t] = "dr_scrub"
    /\ provenance' = Stored(provenance, 0)
    /\ pc' = [pc EXCEPT ![t] = "dr_free"]
    /\ Touch
    /\ UNCHANGED <<alloc, refreed, ref_count, arcs, weaks, exp, held, hist, late, covered>>

\* Arc::drop, lines 123-125: Box::from_raw runs Inner::drop (volatile write
\* of 0 to provenance) and returns the block to the allocator
DropFree(t) ==
    /\ pc[t] = "dr_free"
    /\ provenance' = 0
    /\ ref_count' = 0
    /\ alloc' = "freed"
    /\ refreed' = (refreed \/ alloc = "freed")
    /\ pc' = [pc EXCEPT ![t] = "idle"]
    /\ exp' = [exp EXCEPT ![t] = 0]
    /\ Touch
    /\ UNCHANGED <<arcs, weaks, held, hist, late, covered>>

\* the steps of an operation that has begun
Step(t) ==
    \/ UpgradeLock(t)
    \/ UpgradeNone(t)
    \/ UpgradeInc(t)
    \/ UpgradeUnlock(t)
    \/ UpgradeSome(t)
    \/ DropDec(t)
    \/ DropLock(t)
    \/ DropCheck(t)
    \/ DropUnlock(t)
    \/ DropScrub(t)
    \/ DropFree(t)

Next ==
    \/ \E t \in Threads : Clone(t)
    \/ \E t \in Threads : Downgrade(t)
    \/ \E t \in Threads : UpgradeBegin(t)
    \/ \E t \in Threads : DropLoad(t)
    \/ \E t \in Threads : Step(t)

Spec == Init /\ [][Next]_vars

\* every operation that has begun keeps being scheduled; beginning one is
\* the program's choice
FairSpec == Spec /\ \A t \in Threads : WF_vars(Step(t))

----------------------------------------------------------------------------
(* Properties *)

AllIdle == \A t \in Threads : pc[t] = "idle"
\* between a successful Inner::lock and the store that ends the section, or
\* the end of Box::from_raw
Critical == {"up_inc", "up_unlock", "dr_check", "dr_unlock", "dr_scrub", "dr_free"}
InCritical == {t \in Threads : pc[t] \in Critical}
\* an Arc returned by upgrade and not yet released
PromotedExists ==
    \/ arcs["upgO"] + arcs["upgX"] > 0
    \/ \E t \in Threads : pc[t] = "dr_dec" /\ held[t] \in {"upgO", "upgX"}
\* an Arc that upgrade made while the Arc of Arc::new was alive holds its count
RootedPromotion == arcs["upgO"] > 0 \/ \E t \in Threads : held[t] = "upgO"

\* C1: Box::from_raw runs at most once on the block, whatever the interleaving
\* of clone, drop, downgrade and upgrade.
NoDoubleFree == ~refreed

\* C2: when upgrade is about to return Some the block is allocated and
\* ref_count >= 1, and the block stays allocated while the returned Arc is
\* not released.
PromotionNeverDead ==
    /\ \A t \in Threads : pc[t] = "up_ret" => (alloc = "live" /\ ref_count >= 1)
    /\ PromotedExists => alloc = "live"

\* C3: while an Arc exists (made by new, clone or upgrade and not released)
\* ref_count > 0 and the block is allocated.
CellLiveness == OwnerExists(arcs, pc, held) => (alloc = "live" /\ ref_count > 0)

\* C4: no step of clone, drop, downgrade or upgrade accesses provenance or
\* ref_count after Box::from_raw released the block.
NoUseAfterFree == ~uaf

\* C5: once every Arc has been released and every operation has returned, the
\* block has been deallocated.
NoLeak == (PoolSize(arcs) = 0 /\ AllIdle) => alloc = "freed"

\* every Arc released and every operation returned after a drop that took
\* ref_count to 0 was overtaken by an upgrade; the block was freed, once
NoLeakWitness ==
    /\ PoolSize(arcs) = 0
    /\ AllIdle
    /\ revived
    /\ alloc = "freed"
    /\ ~refreed
    /\ ~uaf

\* C6: an upgrade of a Weak derived from a live Arc, begun after every Arc
\* completed its drop, does not pass Inner::lock (it returns None).
LatePromotionFails ==
    \A t \in Threads :
        (late[t] /\ liveWeak /\ exp[t] = ident) => pc[t] \notin {"up_inc", "up_unlock", "up_ret"}

\* C7: an upgrade during whose whole execution some Arc of the block exists
\* never returns None.
PromotionSucceedsWhileOwned == \A t \in Threads : pc[t] = "up_none" => ~covered[t]

EveryOperationReturns == \A t \in Threads : (pc[t] # "idle") ~> (pc[t] = "idle")

\* C10: at most one thread is between a successful Inner::lock and its
\* unlocking store or the end of its deallocation.
MutualExclusion == Cardinality(InCritical) <= 1

\* C11: a Weak owns nothing.  A step that derives a Weak leaves provenance,
\* ref_count, the allocation and the Arc handles as they were, and however
\* many Weak exist, once the last Arc has been dropped and no operation is
\* running the block has been freed.
ObserversCarryNoOwnership ==
    [][ /\ weaks' # weaks =>
             /\ mem' = mem
             /\ alloc' = alloc
             /\ arcs' = arcs
        /\ (weaks' # {} /\ PoolSize(arcs') = 0 /\ AllIdle') => alloc' = "freed"
      ]_vars
\* a Weak was derived, every Arc was dropped, and the block was freed once
\* without any access after the free
ObserversCarryNoOwnershipWitness ==
    /\ weaks # {}
    /\ PoolSize(arcs) = 0
    /\ AllIdle
    /\ alloc = "freed"
    /\ ~uaf
    /\ ~refreed

\* C12: ref_count leaves zero only under the lock.  The fetch_add of a clone
\* reads the count of an allocated block and never reads 0, and every step
\* that raises ref_count from 0 is the fetch_add of an upgrade that holds the
\* lock bit of the provenance it expected.
CountLeavesZeroUnderLock ==
    [][ /\ arcs'["clone"] > arcs["clone"] => (alloc = "live" /\ ref_count > 0)
        /\ (alloc = "live" /\ ref_count = 0 /\ ref_count' # 0) =>
             \E t \in Threads : /\ pc[t] = "up_inc"
                                /\ pc'[t] = "up_unlock"
                                /\ provenance = SetLow(exp[t])
      ]_vars

\* the step in which the Inner::lock of thread t's Arc::drop returns false
DropLockFails(t) == pc[t] = "dr_lock" /\ pc'[t] = "idle"

ResurrectionHandsOver ==
    [][ \A t \in Threads : pc[t] = "dr_unlock" =>
            /\ alloc = "live"
            /\ pc'[t] = "idle" => /\ provenance' = ident
                                  /\ ref_count' = ref_count
                                  /\ alloc' = "live"
            /\ \A u \in Threads : pc[u] \notin {"dr_scrub", "dr_free"}
            /\ \/ OwnerExists(arcs, pc, held)
               \/ \E u \in Threads : held[u] \in {"upgO", "upgX"}
               \/ \E u \in Threads \ {t} : pc[u] = "dr_lock"
      ]_vars

\* C15: the provenance load of Arc::drop reads an allocated block, and with
\* the low bit cleared it yields the provenance that Arc::new assigned; from
\* Arc::new until the last drop starts to destroy the block (its store of 0)
\* only the low bit of provenance changes.
ReleaseLoadsIdentity ==
    [][ /\ \A t \in Threads : (pc[t] = "idle" /\ pc'[t] = "dr_dec") =>
                /\ alloc = "live"
                /\ exp'[t] = ident
        /\ (alloc' = "live" /\ \A t \in Threads : pc'[t] # "dr_free") =>
                ClearLow(provenance') = ident
      ]_vars

\* C16: whenever downgrade can run on the allocated block, with the lock bit
\* set by another thread or clear, the word it captures is provenance with
\* the low bit cleared, which is the provenance of Arc::new; every Weak
\* derived so far holds that same word, so all of them upgrade alike.
DeriveUnderLock ==
    (alloc = "live" /\ PoolSize(arcs) > 0) =>
        /\ ClearLow(provenance) = ident
        /\ weaks \subseteq {ident}
\* an Arc to downgrade exists while another thread holds the lock bit, and
\* the Weak in existence (the one just derived included) hold the unlocked word
DeriveUnderLockWitness ==
    /\ alloc = "live"
    /\ PoolSize(arcs) > 0
    /\ provenance = SetLow(ident)
    /\ InCritical # {}
    /\ weaks = {ident}

\* thread t is inside Inner::lock, and the steps in which that call returns
InLock(t) == pc[t] \in {"up_lock", "dr_lock"}
LockReturnsTrue(t) == InLock(t) /\ pc'[t] \in {"up_inc", "dr_check"}
LockReturnsFalse(t) == DropLockFails(t) \/ (pc[t] = "up_lock" /\ pc'[t] = "up_none")

\* C17: on the allocated block Inner::lock(exp) returns true only in a step
\* that finds provenance = exp and leaves it exp | 1; it never returns in a
\* step that finds provenance = exp | 1; it returns false only when
\* provenance is neither exp nor exp | 1, and then it leaves provenance as it
\* was.
LockContract ==
    [][ \A t \in Threads : (InLock(t) /\ pc'[t] # pc[t]) =>
            /\ (LockReturnsTrue(t) /\ alloc = "live") =>
                    /\ provenance = exp[t]
                    /\ provenance' = SetLow(exp[t])
            /\ alloc = "live" => provenance # SetLow(exp[t])
            /\ LockReturnsFalse(t) =>
                    /\ provenance' = provenance
                    /\ alloc = "live" => provenance \notin {exp[t], SetLow(exp[t])}
      ]_vars
\* one thread has acquired the lock on the allocated block while another is
\* inside Inner::lock with the same exp and keeps retrying
LockContractWitness ==
    \E t, u \in Threads :
        /\ pc[t] \in {"up_inc", "dr_check"}
        /\ alloc = "live"
        /\ provenance = SetLow(exp[t])
        /\ pc[u] \in {"up_lock", "dr_lock"}
        /\ exp[u] = exp[t]

\* the last drop has executed provenance.store(0) of line 120
Scrubbed == alloc = "freed" \/ \E t \in Threads : pc[t] = "dr_free"

\* C18: once the last drop has stored 0 into provenance, no other thread gets
\* past Inner::lock: until Box::from_raw the scrubbing drop is the only thread
\* beyond a lock, and afterwards no thread is, whatever the provenance that
\* Arc::new drew.
ScrubDefeatsStale ==
    Scrubbed => Cardinality(InCritical) <= (IF alloc = "live" THEN 1 ELSE 0)

\* the Arc handles that hold a count: made by Arc::new, clone, or an upgrade
\* past its fetch_add, and not yet past the fetch_sub of their drop
NumOwned(a, p, h) ==
    PoolSize(a) + Cardinality(Dropping(p, h))
                + Cardinality({t \in Threads : p[t] \in {"up_unlock", "up_ret"}})

\* C19: on the allocated block ref_count equals the number of Arc handles
\* created and not yet decremented by their drop, and the fetch_sub of every
\* drop runs on the allocated block with ref_count above 0: it never wraps.
CountAccounting ==
    [][ /\ alloc' = "live" => ref_count' = NumOwned(arcs', pc', held')
        /\ \A t \in Threads : (pc[t] = "dr_dec" /\ pc'[t] # "dr_dec") =>
                /\ alloc = "live"
                /\ ref_count > 0
      ]_vars

\* C20: the steps of an upgrade that returns None (the lock that fails, the
\* return) leave provenance, ref_count, the allocation and the Arc handles
\* as they were, and in every upgrade begun after the block was freed
\* Inner::lock fails, so that upgrade returns None however often it is
\* repeated.
FailedPromotionNoEffect ==
    [][ \A t \in Threads :
            /\ ((pc[t] = "up_lock" /\ pc'[t] = "up_none") \/ (pc[t] = "up_none" /\ pc'[t] = "idle")) =>
                    /\ mem' = mem
                    /\ alloc' = alloc
                    /\ arcs' = arcs
            /\ (pc[t] = "up_lock" /\ late[t] /\ alloc = "freed" /\ pc'[t] # "up_lock") =>
                    pc'[t] = "up_none"
      ]_vars

====
